---- MODULE Spec2Model ----
(***************************************************************************)
(* A model of src/udtube/modules.py: the subword-to-word pooling of        *)
(* UDTubeEncoder._group_embeddings, the truncation of                      *)
(* UDTubeEncoder.forward, the heads of UDTubeClassifier and the            *)
(* optimizer/scheduler factory OptimizationConfig.                         *)
(*                                                                         *)
(* Conventions.  Python positions are 0-based and spans half-open; TLA+    *)
(* sequences are 1-based, so Python position p of a list is element p + 1. *)
(* A tensor is a nested sequence.  Subword embeddings are integers; the    *)
(* result of torch.mean is the exact fraction <<numerator, denominator>>   *)
(* in lowest terms (floating-point rounding is not modelled).  Python's    *)
(* None word id is NoneId; an Optional tensor or a call's outcome is a     *)
(* record [kind, data].                                                    *)
(***************************************************************************)
EXTENDS Integers, Sequences, FiniteSets, TLC

\* ------------------------------------------------------------------ bounds
MaxBatch == 2
MaxLen == 3
HiddenSize == 2
NumSeeds == 1
MaxPositions == 3
MaxClasses == 3
MaxWords == 2

\* ----------------------------------------------------------------- helpers
NoneId == -1

NoneVal == [kind |-> "None", data |-> <<>>]

Tensor(t) == [kind |-> "Tensor", data |-> t]

Raised(e) == [kind |-> e, data |-> <<>>]

Abs(x) == IF x < 0 THEN -x ELSE x

RECURSIVE GCD(_, _)
GCD(a, b) == IF b = 0 THEN a ELSE GCD(b, a % b)

\* x / n as a fraction in lowest terms; 0 / 0 is torch's nan, kept as <<0, 0>>.
Div(x, n) ==
  IF n = 0 THEN <<0, 0>>
  ELSE LET g == GCD(Abs(x), n) IN <<x \div g, n \div g>>

Zero == <<0, 1>>

MaxOf(S) == CHOOSE m \in S : \A x \in S : x <= m

MinOf(S) == CHOOSE m \in S : \A x \in S : m <= x

\* ---------------------------------------------------------------- variables
VARIABLES
  word_ids,                 \* tokenized.encodings[n].word_ids, per sentence
  embeddings,               \* the subword embedding tensor, N x L x H
  group_pc,                 \* position in _group_embeddings
  sent,                     \* the sentence the zip loop is at (1-based)
  i,                        \* the scan cursor (0-based)
  indices,                  \* the spans found so far for the sentence
  new_sentence_embeddings,  \* one W_n x H tensor per finished sentence
  group_result              \* what _group_embeddings returned or raised

VARIABLES
  batch,                    \* forward's argument as passed: <<ids, mask>>
  input_ids,                \* batch.tokens.input_ids, N x L
  attention_mask,           \* batch.tokens.attention_mask, N x L
  max_position_embeddings,  \* self.encoder.config.max_position_embeddings
  fwd_pc,                   \* "call" before UDTubeEncoder.forward, then "done"
  encoder_call,             \* the arguments self.encoder was called with
  fwd_result                \* what forward returned or raised

VARIABLES
  use,                      \* the use_* flags given to UDTubeClassifier
  out_size,                 \* the *_out_size arguments
  clf_pc,                   \* "new", "constructed", "raised", "forwarded"
  heads,                    \* upos_head, xpos_head, lemma_head, feats_head
  clf_input,                \* the embeddings given to forward
  logits                    \* the Logits forward returned

VARIABLES
  optconf,                  \* the OptimizationConfig record
  opt_pc,                   \* "new" before the call, then "done"
  opt_call,                 \* which entry point was called
  opt_result                \* the bundle returned, or the exception raised

group_vars ==
  <<word_ids, embeddings, group_pc, sent, i, indices,
    new_sentence_embeddings, group_result>>

fwd_vars ==
  <<batch, input_ids, attention_mask, max_position_embeddings, fwd_pc,
    encoder_call, fwd_result>>

clf_vars == <<use, out_size, clf_pc, heads, clf_input, logits>>

opt_vars == <<optconf, opt_pc, opt_call, opt_result>>

vars == <<group_vars, fwd_vars, clf_vars, opt_vars>>

\* ------------------------------------------- UDTubeEncoder._group_embeddings

\* The word-id maps of the tokenizer contract: word ids 0, 1, ... contiguous
\* and non-decreasing, then only None.
WordIdMaps(len) ==
  { w \in [1..len -> NoneId..(len - 1)] :
      /\ \A p \in 1..len : w[p] = NoneId => \A q \in p..len : w[q] = NoneId
      /\ w[1] \in {NoneId, 0}
      /\ \A p \in 1..(len - 1) :
           w[p + 1] /= NoneId => w[p + 1] \in {w[p], w[p] + 1} }

EmbValue(seed, n, p, h) == ((seed * p * p + p + 3 * h + 2 * n) % 7) - 2

EmbeddingTensor(seed, size, len) ==
  [n \in 1..size |-> [p \in 1..len |-> [h \in 1..HiddenSize |->
     EmbValue(seed, n, p, h)]]]

\* tokenizers' Encoding.word_to_tokens: the half-open span of the positions
\* whose word id is word_id.
WordToTokens(ids, word_id) ==
  LET at == {p \in 1..Len(ids) : ids[p] = word_id}
  IN <<MinOf(at) - 1, MaxOf(at)>>

\* The slice t[start:end] of Python.
Slice(t, start, end) == SubSeq(t, start + 1, end)

RECURSIVE SumColumn(_, _)
SumColumn(rows, h) ==
  IF rows = <<>> THEN 0 ELSE Head(rows)[h] + SumColumn(Tail(rows), h)

\* A sum where the mean is meant.
MeanDim0_sum(rows) ==
  [h \in 1..HiddenSize |-> <<SumColumn(rows, h), 1>>]

\* torch.mean(rows, dim=0)
MeanDim0(rows) ==
  [h \in 1..HiddenSize |-> Div(SumColumn(rows, h), Len(rows))]

\* The cursor advanced one position at a time.
ScanNext_one(pair, cursor) == cursor + 1

\* Fast-forwards to the start of the next word: i = pair[-1].
ScanNext(pair, cursor) == pair[2]

\* One iteration of the while loop that appends a span.
ScanStep ==
  /\ group_pc = "scan"
  /\ i < Len(word_ids[sent])
  /\ word_ids[sent][i + 1] /= NoneId
  /\ LET pair == WordToTokens(word_ids[sent], word_ids[sent][i + 1])
     IN /\ indices' = Append(indices, pair)
        /\ i' = ScanNext(pair, i)
  /\ UNCHANGED <<word_ids, embeddings, group_pc, sent,
                 new_sentence_embeddings, group_result>>
  /\ UNCHANGED <<fwd_vars, clf_vars, opt_vars>>

\* The loop ends: the condition fails or the cursor is at padding.
ScanExit ==
  /\ group_pc = "scan"
  /\ IF i < Len(word_ids[sent])
     THEN word_ids[sent][i + 1] = NoneId
     ELSE TRUE
  /\ group_pc' = "stack"
  /\ UNCHANGED <<word_ids, embeddings, sent, i, indices,
                 new_sentence_embeddings, group_result>>
  /\ UNCHANGED <<fwd_vars, clf_vars, opt_vars>>

\* torch.stack over the per-word means; it refuses an empty list.
StackWords(sentence_embeddings, spans) ==
  IF spans = <<>> THEN Raised("RuntimeError")
  ELSE Tensor([k \in 1..Len(spans) |->
         MeanDim0(Slice(sentence_embeddings, spans[k][1], spans[k][2]))])

StackSentence ==
  /\ group_pc = "stack"
  /\ LET stacked == StackWords(embeddings[sent], indices)
     IN IF stacked.kind /= "Tensor"
        THEN /\ group_result' = stacked
             /\ group_pc' = "done"
             /\ UNCHANGED <<sent, i, indices, new_sentence_embeddings>>
        ELSE /\ new_sentence_embeddings' =
                  Append(new_sentence_embeddings, stacked.data)
             /\ indices' = <<>>
             /\ i' = 0
             /\ IF sent < Len(word_ids)
                THEN sent' = sent + 1 /\ group_pc' = "scan"
                ELSE sent' = sent /\ group_pc' = "pad"
             /\ UNCHANGED group_result
  /\ UNCHANGED <<word_ids, embeddings>>
  /\ UNCHANGED <<fwd_vars, clf_vars, opt_vars>>

\* Tensor.T of a W x H matrix (W >= 1).
Transpose(m) ==
  [h \in 1..Len(m[1]) |-> [w \in 1..Len(m) |-> m[w][h]]]

\* The padding put before the values.
Pad_left(m, right) ==
  [r \in 1..Len(m) |->
     [k \in 1..right |-> Zero] \o m[r]]

\* nn.functional.pad(m, (0, right), value=0): pads the trailing axis.
Pad(m, right) ==
  [r \in 1..Len(m) |->
     m[r] \o [k \in 1..right |-> Zero]]

\* Tensor.permute(0, 2, 1)
Permute021(t) ==
  [n \in 1..Len(t) |->
     [b \in 1..Len(t[n][1]) |-> [a \in 1..Len(t[n]) |-> t[n][a][b]]]]

pad_max(sentences) == MaxOf({Len(sentences[n]) : n \in 1..Len(sentences)})

PadAndStack(sentences) ==
  Permute021([n \in 1..Len(sentences) |->
     Pad(Transpose(sentences[n]),
         pad_max(sentences) - Len(sentences[n]))])

PadSentences ==
  /\ group_pc = "pad"
  /\ group_result' = Tensor(PadAndStack(new_sentence_embeddings))
  /\ group_pc' = "done"
  /\ UNCHANGED <<word_ids, embeddings, sent, i, indices,
                 new_sentence_embeddings>>
  /\ UNCHANGED <<fwd_vars, clf_vars, opt_vars>>

\* The batch _group_embeddings is called with: at least one sentence, every
\* sentence padded to the same subword length.
GroupStart ==
  /\ \E size \in 1..MaxBatch :
       /\ word_ids \in [1..size -> WordIdMaps(MaxLen)]
       /\ \E seed \in 0..(NumSeeds - 1) :
            embeddings = EmbeddingTensor(seed, size, MaxLen)
  /\ group_pc = "scan"
  /\ sent = 1
  /\ i = 0
  /\ indices = <<>>
  /\ new_sentence_embeddings = <<>>
  /\ group_result = NoneVal

GroupIdle ==
  /\ word_ids = <<>>
  /\ embeddings = <<>>
  /\ group_pc = "idle"
  /\ sent = 1
  /\ i = 0
  /\ indices = <<>>
  /\ new_sentence_embeddings = <<>>
  /\ group_result = NoneVal

GroupNext == ScanStep \/ ScanExit \/ StackSentence \/ PadSentences

\* --------------------------------------------------- UDTubeEncoder.forward

\* What an instance of UDTubeEncoder answers to: the attributes __init__
\* sets, the property and the methods.  nn.Module defines no `device`.
EncoderAttributes ==
  {"encoder", "dropout_layer", "pooling_layers", "optconf", "hidden_size",
   "_group_embeddings", "forward", "configure_optimizers"}

\* t[:max_length]: a single slice indexes the leading axis of the tensor.
Truncate(t, max_length) ==
  SubSeq(t, 1, IF max_length < Len(t) THEN max_length ELSE Len(t))

\* input_ids.shape[1]
actual_length(ids) == Len(ids[1])

\* forward up to the encoder call: the truncation, then the arguments of
\* self.encoder(...), whose evaluation reads self.device.  The layer pooling,
\* the dropout and _group_embeddings follow the call.
Forward ==
  /\ fwd_pc = "call"
  /\ IF actual_length(input_ids) > max_position_embeddings
     THEN /\ input_ids' = Truncate(input_ids, max_position_embeddings)
          /\ attention_mask' =
               Truncate(attention_mask, max_position_embeddings)
     ELSE UNCHANGED <<input_ids, attention_mask>>
  /\ IF "device" \in EncoderAttributes
     THEN /\ encoder_call' =
               [kind |-> "Call", data |-> <<input_ids', attention_mask'>>]
          /\ fwd_result' = [kind |-> "Returned", data |-> <<>>]
     ELSE /\ encoder_call' = NoneVal
          /\ fwd_result' = Raised("AttributeError")
  /\ fwd_pc' = "done"
  /\ UNCHANGED <<batch, max_position_embeddings>>
  /\ UNCHANGED <<group_vars, clf_vars, opt_vars>>

TokenId(seed, n, p) == 100 + (((seed + 1) * (3 * n + p)) % 50)

\* A padded batch: sentence n has lens[n] real subwords, then padding (id 0,
\* mask 0).
FwdStart ==
  /\ \E size \in 1..MaxBatch, len \in 1..MaxLen, seed \in 0..(NumSeeds - 1) :
       \E lens \in [1..size -> 1..len] :
         /\ input_ids = [n \in 1..size |-> [p \in 1..len |->
              IF p <= lens[n] THEN TokenId(seed, n, p) ELSE 0]]
         /\ attention_mask = [n \in 1..size |-> [p \in 1..len |->
              IF p <= lens[n] THEN 1 ELSE 0]]
  /\ batch = <<input_ids, attention_mask>>
  /\ max_position_embeddings \in 1..MaxPositions
  /\ fwd_pc = "call"
  /\ encoder_call = NoneVal
  /\ fwd_result = NoneVal

FwdIdle ==
  /\ batch = <<>>
  /\ input_ids = <<>>
  /\ attention_mask = <<>>
  /\ max_position_embeddings = 1
  /\ fwd_pc = "idle"
  /\ encoder_call = NoneVal
  /\ fwd_result = NoneVal

FwdNext == Forward

\* -------------------------------------------------------- UDTubeClassifier

Tasks == <<"upos", "xpos", "lemma", "feats">>

TaskSet == {Tasks[k] : k \in 1..Len(Tasks)}

\* What an instance of UDTubeClassifier answers to; it defines no
\* `hidden_size`, and nn.Module has none.
ClassifierAttributes ==
  {"upos_head", "xpos_head", "lemma_head", "feats_head", "optconf",
   "_make_head", "use_upos", "use_xpos", "use_lemma", "use_feats",
   "forward", "configure_optimizers"}

\* _make_head: nn.Linear(self.hidden_size, out_size), then nn.LeakyReLU().
make_head(size) ==
  IF "hidden_size" \in ClassifierAttributes
  THEN [kind |-> "Head", data |-> <<size>>]
  ELSE Raised("AttributeError")

\* __init__: the four conditional expressions, in order; the first failing
\* _make_head ends the construction.
ClassifierInit ==
  /\ clf_pc = "new"
  /\ LET made == [t \in TaskSet |->
                    IF use[t] THEN make_head(out_size[t]) ELSE NoneVal]
     IN IF \E t \in TaskSet : made[t].kind = "AttributeError"
        THEN /\ clf_pc' = "raised"
             /\ UNCHANGED heads
        ELSE /\ clf_pc' = "constructed"
             /\ heads' = made
  /\ UNCHANGED <<use, out_size, clf_input, logits>>
  /\ UNCHANGED <<group_vars, fwd_vars, opt_vars>>

Weight(c, h) == c - h

Bias(c) == c - 2

RECURSIVE Dot(_, _, _)
Dot(c, x, h) == IF h = 0 THEN 0 ELSE Weight(c, h) * x[h] + Dot(c, x, h - 1)

\* nn.LeakyReLU(): x for x >= 0, 0.01 x below.
LeakyReLU(x) == IF x >= 0 THEN <<x, 1>> ELSE Div(x, 100)

\* head(embeddings): N x L x C
ApplyHead(head, emb) ==
  [n \in 1..Len(emb) |-> [w \in 1..Len(emb[n]) |->
     [c \in 1..head.data[1] |->
        LeakyReLU(Dot(c, emb[n][w], Len(emb[n][w])) + Bias(c))]]]

LogitsEntry(head, emb) ==
  IF head.kind /= "None"
  THEN Tensor(Permute021(ApplyHead(head, emb)))
  ELSE NoneVal

ClassifierInputs ==
  { [n \in 1..size |-> [w \in 1..words |-> [h \in 1..HiddenSize |->
       EmbValue(seed, n, w, h)]]] :
    size \in 1..MaxBatch, words \in 1..MaxWords, seed \in 0..(NumSeeds - 1) }

ClassifierForward ==
  /\ clf_pc \in {"constructed", "forwarded"}
  /\ \E emb \in ClassifierInputs :
       /\ clf_input' = Tensor(emb)
       /\ logits' = [t \in TaskSet |-> LogitsEntry(heads[t], emb)]
  /\ clf_pc' = "forwarded"
  /\ UNCHANGED <<use, out_size, heads>>
  /\ UNCHANGED <<group_vars, fwd_vars, opt_vars>>

ClfStart ==
  /\ use \in [TaskSet -> BOOLEAN]
  /\ out_size \in [TaskSet -> 2..MaxClasses]
  /\ clf_pc = "new"
  /\ heads = [t \in TaskSet |-> NoneVal]
  /\ clf_input = NoneVal
  /\ logits = [t \in TaskSet |-> NoneVal]

ClfIdle ==
  /\ use = [t \in TaskSet |-> FALSE]
  /\ out_size = [t \in TaskSet |-> 2]
  /\ clf_pc = "idle"
  /\ heads = [t \in TaskSet |-> NoneVal]
  /\ clf_input = NoneVal
  /\ logits = [t \in TaskSet |-> NoneVal]

ClfNext == ClassifierInit \/ ClassifierForward

\* ------------------------------------------------------ OptimizationConfig

\* Python values with their run-time type.
Float(x) == [type |-> "float", value |-> <<x>>]

Pair(x, y) == [type |-> "tuple", value |-> <<x, y>>]

Str(x) == [kind |-> "str", data |-> <<x>>]

\* Python truth of a scheduler field: None and "" are false.
Truthy(v) == v.kind = "str" /\ v.data /= <<"">>

\* optim_fac
optim_fac == {"adadelta", "adam", "adamw", "sgd"}

\* scheduler_fac
scheduler_fac == {"reduceonplateau", "warmupinvsqrt"}

Optimizer(family, params, lr, hyper) ==
  [kind |-> "Optimizer",
   data |-> <<[family |-> family, params |-> params, lr |-> lr,
               hyper |-> hyper]>>]

\* The torch.optim constructors called with four positional arguments:
\* Adadelta(params, lr, rho, eps), Adam and AdamW(params, lr, betas, eps),
\* SGD(params, lr, momentum, dampening).  Adam and AdamW subscript betas.
Construct(family, args) ==
  CASE family = "adadelta" ->
         Optimizer("Adadelta", args[1], args[2],
                   [rho |-> args[3], eps |-> args[4]])
    [] family \in {"adam", "adamw"} ->
         IF args[3].type /= "tuple" THEN Raised("TypeError")
         ELSE Optimizer(IF family = "adam" THEN "Adam" ELSE "AdamW",
                        args[1], args[2],
                        [betas |-> args[3], eps |-> args[4]])
    [] family = "sgd" ->
         Optimizer("SGD", args[1], args[2],
                   [momentum |-> args[3], dampening |-> args[4]])

\* The arguments _get_optimizer passes to the constructor, by position.
OptimizerArgs(conf, parameters) ==
  <<parameters, Float(conf.learning_rate), Float(conf.beta1),
    Float(conf.beta2)>>

\* A lookup that falls back to SGD.
get_optimizer_fallback(conf, parameters) ==
  Construct(IF conf.optimizer \in optim_fac THEN conf.optimizer ELSE "sgd",
            OptimizerArgs(conf, parameters))

\* _get_optimizer
get_optimizer(conf, parameters) ==
  IF conf.optimizer \notin optim_fac THEN Raised("KeyError")
  ELSE Construct(conf.optimizer, OptimizerArgs(conf, parameters))

\* schedulers.ReduceOnPlateau, schedulers.WarmupInverseSquareRootScheduler
MakeScheduler(name, optimizer, conf) ==
  [kind |-> "Scheduler",
   data |-> <<[family |-> name, optimizer |-> optimizer,
               args |-> <<conf.reduceonplateau_factor,
                          conf.reduceonplateau_patience,
                          conf.min_learning_rate, conf.warmup_steps>>]>>]

\* _get_scheduler
get_scheduler(conf, optimizer) ==
  IF conf.scheduler.data[1] \notin scheduler_fac THEN Raised("KeyError")
  ELSE MakeScheduler(conf.scheduler.data[1], optimizer, conf)

\* A test against None only.
HasScheduler_is_not_none(conf) == conf.scheduler.kind = "str"

\* if self.scheduler:
HasScheduler(conf) == Truthy(conf.scheduler)

Bundle(b) == [kind |-> "Bundle", data |-> <<b>>]

\* configure(parameters)
configure(conf, parameters) ==
  LET optimizer == get_optimizer(conf, parameters)
  IN IF optimizer.kind /= "Optimizer" THEN optimizer
     ELSE IF HasScheduler(conf)
          THEN LET scheduler == get_scheduler(conf, optimizer.data[1])
               IN IF scheduler.kind /= "Scheduler" THEN scheduler
                  ELSE Bundle([optimizer |-> optimizer.data[1],
                               lr_scheduler |->
                                 [scheduler |-> scheduler.data[1],
                                  monitor |-> "val_loss"]])
          ELSE Bundle([optimizer |-> optimizer.data[1]])

\* A call of configure with the positional arguments args: it takes exactly
\* one, parameters.
CallConfigure(conf, args) ==
  IF Len(args) /= 1 THEN Raised("TypeError")
  ELSE configure(conf, args[1])

ParameterLists == {<<"weight">>, <<"weight", "bias">>}

\* OptimizationConfig.configure called with a module's parameters.
Configure ==
  /\ opt_pc = "new"
  /\ \E parameters \in ParameterLists :
       opt_result' = CallConfigure(optconf, <<parameters>>)
  /\ opt_call' = "configure"
  /\ opt_pc' = "done"
  /\ UNCHANGED optconf
  /\ UNCHANGED <<group_vars, fwd_vars, clf_vars>>

\* The arguments configure_optimizers passes to self.optconf.configure.
ConfigureOptimizersArgs == <<>>

\* UDTubeEncoder.configure_optimizers, UDTubeClassifier.configure_optimizers
ConfigureOptimizers ==
  /\ opt_pc = "new"
  /\ \E module \in {"UDTubeEncoder", "UDTubeClassifier"} :
       opt_call' = module
  /\ opt_result' = CallConfigure(optconf, ConfigureOptimizersArgs)
  /\ opt_pc' = "done"
  /\ UNCHANGED optconf
  /\ UNCHANGED <<group_vars, fwd_vars, clf_vars>>

OptimizerNames == optim_fac \cup {"rmsprop"}

SchedulerValues ==
  {NoneVal} \cup
  {Str(x) : x \in scheduler_fac \cup {"", "none", "cosine"}}

\* Learning rates and betas in thousandths.
OptStart ==
  /\ optconf \in
       [optimizer : OptimizerNames,
        learning_rate : {1, 10},
        beta1 : {900, 950},
        beta2 : {999},
        scheduler : SchedulerValues,
        reduceonplateau_factor : {100},
        reduceonplateau_patience : {10},
        min_learning_rate : {0},
        warmup_steps : {1}]
  /\ opt_pc = "new"
  /\ opt_call = ""
  /\ opt_result = NoneVal

OptIdle ==
  /\ optconf = [optimizer |-> "adam", learning_rate |-> 1, beta1 |-> 900,
                beta2 |-> 999, scheduler |-> NoneVal,
                reduceonplateau_factor |-> 100,
                reduceonplateau_patience |-> 10,
                min_learning_rate |-> 0, warmup_steps |-> 1]
  /\ opt_pc = "idle"
  /\ opt_call = ""
  /\ opt_result = NoneVal

OptNext == Configure \/ ConfigureOptimizers

\* ----------------------------------------------------------- specifications

InitGroup == GroupStart /\ FwdIdle /\ ClfIdle /\ OptIdle

SpecGroup == InitGroup /\ [][GroupNext]_vars /\ WF_vars(GroupNext)

InitForward == GroupIdle /\ FwdStart /\ ClfIdle /\ OptIdle

SpecForward == InitForward /\ [][FwdNext]_vars

InitClassifier == GroupIdle /\ FwdIdle /\ ClfStart /\ OptIdle

SpecClassifier == InitClassifier /\ [][ClfNext]_vars

InitOptim == GroupIdle /\ FwdIdle /\ ClfIdle /\ OptStart

SpecOptim == InitOptim /\ [][OptNext]_vars

\* ------------------------------------------------------------------ claims

\* The number of words of a sentence, read off its word-id map.
WordCount(ids) == Cardinality({ids[p] : p \in 1..Len(ids)} \ {NoneId})

\* The number of positions before the first None.
RealLen(ids) == Cardinality({p \in 1..Len(ids) : ids[p] /= NoneId})

LongestSentence == MaxOf({WordCount(word_ids[n]) : n \in 1..Len(word_ids)})

RECURSIVE SumOver(_, _, _)
SumOver(P, row, h) ==
  IF P = {} THEN 0
  ELSE LET p == CHOOSE q \in P : TRUE
       IN row[p][h] + SumOver(P \ {p}, row, h)

\* C1: when _group_embeddings returns, the tensor has one row per sentence,
\* its word axis is as long as the longest sentence of the batch, every
\* position at or beyond a sentence's own word count is zero and the
\* positions below it hold the sentence's word embeddings in order; it does
\* return whenever every sentence has a word.
C1_PaddedToBatchMaximum ==
  group_pc = "done" =>
    /\ (\A n \in 1..Len(word_ids) : WordCount(word_ids[n]) > 0)
         => group_result.kind = "Tensor"
    /\ group_result.kind = "Tensor" =>
         /\ Len(group_result.data) = Len(word_ids)
         /\ \A n \in 1..Len(word_ids) :
              /\ Len(group_result.data[n]) = LongestSentence
              /\ \A w \in 1..LongestSentence :
                   /\ Len(group_result.data[n][w]) = HiddenSize
                   /\ IF w > WordCount(word_ids[n])
                      THEN \A h \in 1..HiddenSize :
                             group_result.data[n][w][h] = <<0, 1>>
                      ELSE group_result.data[n][w] =
                             new_sentence_embeddings[n][w]

C1_Witness ==
  /\ group_pc = "done"
  /\ group_result.kind = "Tensor"
  /\ \E n, m \in 1..Len(word_ids) :
       /\ WordCount(word_ids[n]) + 2 <= WordCount(word_ids[m])
       /\ \E h \in 1..HiddenSize : group_result.data[n][1][h] /= <<0, 1>>
       /\ group_result.data[n][WordCount(word_ids[m])] =
            [h \in 1..HiddenSize |-> <<0, 1>>]

\* C2: the embedding of word w of a finished sentence is the elementwise
\* mean of the subword embeddings at the positions whose word id is w, and
\* is that subword's embedding itself when there is one such position.
C2_WordIsMeanOfSubwords ==
  \A n \in 1..Len(new_sentence_embeddings) :
    /\ Len(new_sentence_embeddings[n]) = WordCount(word_ids[n])
    /\ \A w \in 1..WordCount(word_ids[n]) :
         LET P == {p \in 1..Len(word_ids[n]) : word_ids[n][p] = w - 1}
             e == new_sentence_embeddings[n][w]
         IN \A h \in 1..HiddenSize :
              /\ e[h][2] > 0
              /\ e[h][1] * Cardinality(P) =
                   e[h][2] * SumOver(P, embeddings[n], h)
              /\ Cardinality(P) = 1 =>
                   \A p \in P : e[h] = <<embeddings[n][p][h], 1>>

C2_Witness ==
  \E n \in 1..Len(new_sentence_embeddings) :
    /\ \E w \in 1..WordCount(word_ids[n]) :
         /\ Cardinality({p \in 1..Len(word_ids[n]) :
                           word_ids[n][p] = w - 1}) >= 2
         /\ \E h \in 1..HiddenSize : new_sentence_embeddings[n][w][h][2] > 1
    /\ \E w \in 1..WordCount(word_ids[n]) :
         /\ Cardinality({p \in 1..Len(word_ids[n]) :
                           word_ids[n][p] = w - 1}) = 1
         /\ \E h \in 1..HiddenSize : new_sentence_embeddings[n][w][h][1] /= 0

\* C8: a batch with a sentence of zero words is grouped without raising, and
\* that sentence's row of the result is max-words long and all zero.
C8_ZeroWordSentenceIsPadded ==
  group_pc = "done" =>
    /\ group_result.kind = "Tensor"
    /\ \A n \in 1..Len(word_ids) :
         WordCount(word_ids[n]) = 0 =>
           /\ Len(group_result.data[n]) = LongestSentence
           /\ \A w \in 1..LongestSentence : \A h \in 1..HiddenSize :
                group_result.data[n][w][h] = <<0, 1>>

\* C10, the state part: during and after the scan of a sentence the spans
\* found are those of words 0, 1, ... in order, each non-empty and holding
\* only its word's positions, the first starting at 0 and each starting where
\* the one before ends; the cursor is at the end of the last one; when the
\* loop has ended there is one span per word and the cursor is at the first
\* None position.
C10_ScanState ==
  group_pc \in {"scan", "stack"} =>
    /\ \A k \in 1..Len(indices) :
         /\ indices[k][1] < indices[k][2]
         /\ indices[k][1] = IF k = 1 THEN 0 ELSE indices[k - 1][2]
         /\ \A p \in (indices[k][1] + 1)..indices[k][2] :
              word_ids[sent][p] = k - 1
    /\ i = IF indices = <<>> THEN 0 ELSE indices[Len(indices)][2]
    /\ i <= RealLen(word_ids[sent])
    /\ group_pc = "stack" =>
         /\ Len(indices) = WordCount(word_ids[sent])
         /\ i = RealLen(word_ids[sent])

\* C10, the step part: an iteration of the scan moves the cursor strictly
\* forward and adds exactly one span.
C10_ScanIteration ==
  (group_pc = "scan" /\ group_pc' = "scan" /\ sent' = sent) =>
    /\ i' > i
    /\ Len(indices') = Len(indices) + 1

\* C10: for word-id maps of the tokenizer contract the span scan takes one
\* iteration per word, the cursor jumping to each span's end, stops at the
\* first None, yields the words' spans in order, which partition the
\* positions before the first None, and _group_embeddings ends.
C10_ScanOneIterationPerWord ==
  /\ []C10_ScanState
  /\ [][C10_ScanIteration]_vars
  /\ <>(group_pc = "done")

C10_Witness ==
  /\ group_pc = "stack"
  /\ Len(indices) >= 2
  /\ \E k \in 1..Len(indices) : indices[k][2] - indices[k][1] >= 2
  /\ i = RealLen(word_ids[sent])

\* C3: given a batch longer than max_position_embeddings, the encoder is
\* called with the first max positions of every sentence's token ids and
\* attention mask, all sentences kept, and forward does not raise.
C3_TruncatesSequenceAxis ==
  (fwd_pc = "done" /\ Len(batch[1][1]) > max_position_embeddings) =>
    /\ fwd_result.kind \notin {"AttributeError"}
    /\ encoder_call.kind = "Call"
    /\ encoder_call.data =
         <<[n \in 1..Len(batch[1]) |->
              SubSeq(batch[1][n], 1, max_position_embeddings)],
           [n \in 1..Len(batch[2]) |->
              SubSeq(batch[2][n], 1, max_position_embeddings)]>>

\* C4: whatever the four flags, the classifier is constructed, and after a
\* forward call a disabled task's entry is None and an enabled task's entry
\* is a tensor of shape batch x declared classes x words whose value at
\* [n][c][w] is the head's output at [n][w][c].
C4_EntryPresentIffEnabled ==
  /\ clf_pc /= "raised"
  /\ clf_pc = "forwarded" =>
       \A t \in TaskSet :
         IF ~use[t] THEN logits[t].kind = "None"
         ELSE /\ logits[t].kind = "Tensor"
              /\ Len(logits[t].data) = Len(clf_input.data)
              /\ \A n \in 1..Len(clf_input.data) :
                   /\ Len(logits[t].data[n]) = out_size[t]
                   /\ \A c \in 1..out_size[t] :
                        /\ Len(logits[t].data[n][c]) = Len(clf_input.data[n])
                        /\ \A w \in 1..Len(clf_input.data[n]) :
                             logits[t].data[n][c][w] =
                               ApplyHead(heads[t], clf_input.data)[n][w][c]

ViaConfigure == opt_pc = "done" /\ opt_call = "configure"

IsException(r) == r.kind \in {"KeyError", "TypeError"}

\* C5: configure with an optimizer name outside adadelta, adam, adamw, sgd,
\* or with a non-empty scheduler name outside reduceonplateau,
\* warmupinvsqrt, raises and returns no bundle.
C5_UnknownNameRaises ==
  ( /\ ViaConfigure
    /\ \/ optconf.optimizer \notin {"adadelta", "adam", "adamw", "sgd"}
       \/ /\ optconf.scheduler.kind = "str"
          /\ optconf.scheduler.data[1] \notin
               {"", "reduceonplateau", "warmupinvsqrt"} )
  => IsException(opt_result)

C5_Witness ==
  /\ ViaConfigure
  /\ optconf.optimizer = "sgd"
  /\ optconf.scheduler.kind = "str"
  /\ optconf.scheduler.data = <<"cosine">>
  /\ opt_result.kind = "KeyError"

SchedulerIn(names) ==
  optconf.scheduler.kind = "str" /\ optconf.scheduler.data[1] \in names

EmptyScheduler == optconf.scheduler.kind = "None" \/ SchedulerIn({""})

OptimizerOnly ==
  /\ opt_result.kind = "Bundle"
  /\ DOMAIN opt_result.data[1] = {"optimizer"}

C7_AdamGetsLearningRateAndBetas ==
  (ViaConfigure /\ optconf.optimizer = "adam" /\ EmptyScheduler) =>
    /\ opt_result.kind = "Bundle"
    /\ opt_result.data[1].optimizer.family = "Adam"
    /\ opt_result.data[1].optimizer.lr.value = <<optconf.learning_rate>>
    /\ opt_result.data[1].optimizer.hyper.betas.value =
         <<optconf.beta1, optconf.beta2>>

\* C9: with a recognized optimizer name (and a scheduler that is empty or
\* recognized), configure_optimizers() of the encoder or the classifier
\* returns the bundle without raising.
C9_ConfigureOptimizersReturnsBundle ==
  ( /\ opt_pc = "done"
    /\ opt_call \in {"UDTubeEncoder", "UDTubeClassifier"}
    /\ optconf.optimizer \in {"adadelta", "adam", "adamw", "sgd"}
    /\ EmptyScheduler \/ SchedulerIn({"reduceonplateau", "warmupinvsqrt"}) )
  => /\ opt_result.kind = "Bundle"
     /\ "optimizer" \in DOMAIN opt_result.data[1]

====
